---------------------------- MODULE Spec2Model ----------------------------
(***************************************************************************)
(* UserTable (src/src/App.tsx): a React function component that fetches a  *)
(* list of user records on mount, filters it by a search term, shows it    *)
(* five rows at a time and keeps a list of selected ids.                    *)
(*                                                                         *)
(* The variables are the component's useState cells as of the last         *)
(* committed render, the promise of the one fetch, and the passive effects *)
(* (useEffect) the last commit scheduled and that have not run yet.  State  *)
(* updates made in one handler / one continuation of the async function    *)
(* are batched into one commit.  React flushes pending passive effects      *)
(* before it handles the next event, so the event actions are enabled only *)
(* when no effect is pending.                                               *)
(*                                                                         *)
(* Strings are sequences of characters (one-character strings); a longer   *)
(* literal of the source is kept as one element.  `string | null` is an    *)
(* option: <<>> is null, <<s>> is the string s.                             *)
(***************************************************************************)
EXTENDS Integers, Sequences, FiniteSets, TLC

VARIABLES
    users,            \* useState<User[]>          line 67
    filteredUsers,    \* useState<User[]>          line 68
    selectedUsers,    \* useState<number[]>        line 69
    searchTerm,       \* useState<string>          line 70
    currentPage,      \* useState<number>          line 71
    loading,          \* useState<boolean>         line 72
    error,            \* useState<string | null>   line 73
    inFlight,         \* the fetch promise of line 87 is pending
    requests,         \* calls of fetch() (line 87) since the page was loaded
    effects,          \* passive effects scheduled by the last commit, not yet run
    selectionEvents   \* number of checkbox events since mount (bounds the run)

vars == <<users, filteredUsers, selectedUsers, searchTerm, currentPage,
          loading, error, inFlight, requests, effects, selectionEvents>>

-----------------------------------------------------------------------------
(* Bounds of the model *)

\* longest response array the API returns
MaxUsers == 12

\* checkbox events (row toggles and select-all changes) per mount
MaxSelectionEvents == 2

\* const usersPerPage: number = 5
usersPerPage == 5

-----------------------------------------------------------------------------
(* Strings *)

Lower == <<"a", "b", "c">>
Upper == <<"A", "B", "C">>

\* String.prototype.toLowerCase, one character
ToLowerChar(c) ==
    IF \E k \in 1..Len(Upper) : Upper[k] = c
    THEN Lower[CHOOSE k \in 1..Len(Upper) : Upper[k] = c]
    ELSE c

\* String.prototype.toLowerCase
ToLowerCase(s) == [k \in 1..Len(s) |-> ToLowerChar(s[k])]

\* String.prototype.includes: t occurs in s as a contiguous run
Includes(s, t) ==
    \E i \in 1..(Len(s) - Len(t) + 1) : SubSeq(s, i, i + Len(t) - 1) = t

DigitChars == <<"0", "1", "2", "3", "4", "5", "6", "7", "8", "9">>

\* Number -> decimal string, as a template literal formats ${n} (n >= 0)
RECURSIVE NumberToString(_)
NumberToString(n) ==
    IF n < 10 THEN <<DigitChars[n + 1]>>
    ELSE NumberToString(n \div 10) \o <<DigitChars[(n % 10) + 1]>>

\* string | null
Null == <<>>
Some(s) == <<s>>

\* JavaScript truthiness of a string | null: null and '' are falsy
Truthy(e) == e # Null /\ e[1] # <<>>

Max(a, b) == IF a >= b THEN a ELSE b
Min(a, b) == IF a <= b THEN a ELSE b

\* Math.ceil(n / d) for n >= 0, d > 0
CeilDiv(n, d) == IF n % d = 0 THEN n \div d ELSE (n \div d) + 1

\* Array.prototype.slice(start, end) with 0-based, non-negative arguments
Slice(arr, start, end) ==
    LET lo == Min(start, Len(arr))
        hi == Min(end, Len(arr))
    IN  IF lo >= hi THEN <<>> ELSE SubSeq(arr, lo + 1, hi)

\* the elements of an array
Range(arr) == {arr[k] : k \in 1..Len(arr)}

-----------------------------------------------------------------------------
(* The remote data: what the endpoint can answer *)

\* the k-th record the API holds (k >= 1); the fields the component reads
ApiUser(k) ==
    [ id        |-> IF k % 2 = 1 THEN k + 1 ELSE k - 1,
      firstname |-> <<Upper[(k % 3) + 1], Lower[((k \div 3) % 3) + 1]>>,
      lastname  |-> <<Upper[((k + 1) % 3) + 1], Lower[((k \div 2) % 3) + 1]>>,
      email     |-> <<Lower[((k \div 4) % 3) + 1], "@", Lower[((k + 2) % 3) + 1]>>,
      username  |-> <<Lower[((k \div 5) % 3) + 1], Upper[((k \div 6) % 3) + 1]>> ]

\* a response array of n records, in response order
ApiUsers(n) == [k \in 1..n |-> ApiUser(k)]

\* HTTP statuses the proxy answers with
Statuses == {200, 201, 404, 500, 503}

\* messages of the TypeError a browser rejects fetch() with
NetworkMessages == {<<"Failed to fetch">>, <<"Load failed">>}

\* message of the SyntaxError response.json() throws on a body that is no JSON
JsonParseMessage == <<"Unexpected token < in JSON at position 0">>

\* the lengths of the arrays the endpoint answers with: none, one record,
\* one more than a page, two full pages, and the longest
ArrayLengths == {0, 1, usersPerPage + 1, 2 * usersPerPage, MaxUsers}

\* The bodies a response can carry: no JSON at all, JSON that is no array
\* (an object, null, a number), or an array of user records.
Bodies ==
    {[parses |-> FALSE, isArray |-> FALSE, items |-> <<>>],
     [parses |-> TRUE,  isArray |-> FALSE, items |-> <<>>]}
    \cup {[parses |-> TRUE, isArray |-> TRUE, items |-> ApiUsers(n)] : n \in ArrayLengths}

\* How the awaited fetch settles: it rejects (network failure), or it resolves
\* with a Response of some status and body.
Settlements ==
    {[rejected |-> TRUE, message |-> m, status |-> 0,
      body |-> [parses |-> FALSE, isArray |-> FALSE, items |-> <<>>]] : m \in NetworkMessages}
    \cup {[rejected |-> FALSE, message |-> <<>>, status |-> s, body |-> b] :
              s \in Statuses, b \in Bodies}

\* the search terms a user types: the empty one, a term in mixed case that
\* some records match (by first name, last name or username), a term every
\* record matches (by email) and a term no record matches
Terms == {<<>>, <<"B", "b">>, <<"@">>, <<"@", "@">>}

-----------------------------------------------------------------------------
(* The component *)

\* the useState initial values (what a mount, and so a page reload, starts from)
InitialState ==
    [ users         |-> <<>>,
      filteredUsers |-> <<>>,
      selectedUsers |-> <<>>,
      searchTerm    |-> <<>>,
      currentPage   |-> 1,
      loading       |-> TRUE,
      error         |-> Null ]

\* the component's state as one record
State ==
    [ users         |-> users,
      filteredUsers |-> filteredUsers,
      selectedUsers |-> selectedUsers,
      searchTerm    |-> searchTerm,
      currentPage   |-> currentPage,
      loading       |-> loading,
      error         |-> error ]

\* commit a state record
Commit(st) ==
    /\ users' = st.users
    /\ filteredUsers' = st.filteredUsers
    /\ selectedUsers' = st.selectedUsers
    /\ searchTerm' = st.searchTerm
    /\ currentPage' = st.currentPage
    /\ loading' = st.loading
    /\ error' = st.error

\* response.ok
ResponseOk(status) == status >= 200 /\ status <= 299

\* (mutation) the message without the interpolated status
HttpErrorMessage_NoStatus(status) == <<"HTTP error! status: ">>

\* `HTTP error! status: ${response.status}`
HttpErrorMessage(status) == <<"HTTP error! status: ">> \o NumberToString(status)

InvalidDataMessage == <<"Invalid data format received from API">>

\* (mutation) the body check without `&& data.length > 0`
FetchTry_AcceptsEmptyArray(r) ==
    IF r.rejected
    THEN [thrown |-> TRUE, err |-> [isError |-> TRUE, message |-> r.message], data |-> <<>>]
    ELSE IF ~ResponseOk(r.status)
    THEN [thrown |-> TRUE,
          err |-> [isError |-> TRUE, message |-> HttpErrorMessage(r.status)], data |-> <<>>]
    ELSE IF ~r.body.parses
    THEN [thrown |-> TRUE,
          err |-> [isError |-> TRUE, message |-> JsonParseMessage], data |-> <<>>]
    ELSE IF r.body.isArray
    THEN [thrown |-> FALSE, err |-> [isError |-> FALSE, message |-> <<>>],
          data |-> r.body.items]
    ELSE [thrown |-> TRUE,
          err |-> [isError |-> TRUE, message |-> InvalidDataMessage], data |-> <<>>]

\* The try block of fetchUsers after the await: the value it throws, or the
\* array it stores.  A thrown value is [isError, message].
FetchTry(r) ==
    IF r.rejected
    THEN [thrown |-> TRUE, err |-> [isError |-> TRUE, message |-> r.message], data |-> <<>>]
    ELSE IF ~ResponseOk(r.status)
    THEN [thrown |-> TRUE,
          err |-> [isError |-> TRUE, message |-> HttpErrorMessage(r.status)], data |-> <<>>]
    ELSE IF ~r.body.parses
    THEN [thrown |-> TRUE,
          err |-> [isError |-> TRUE, message |-> JsonParseMessage], data |-> <<>>]
    ELSE IF r.body.isArray /\ Len(r.body.items) > 0
    THEN [thrown |-> FALSE, err |-> [isError |-> FALSE, message |-> <<>>],
          data |-> r.body.items]
    ELSE [thrown |-> TRUE,
          err |-> [isError |-> TRUE, message |-> InvalidDataMessage], data |-> <<>>]

\* err instanceof Error ? err.message : 'Failed to fetch users'
ErrorMessage(err) == IF err.isError THEN err.message ELSE <<"Failed to fetch users">>

\* (mutation) setLoading(false) as the last statement of the try block
\* instead of in a finally: a throw leaves the loading flag up
FetchUsersSettled_NoFinally(st, r) ==
    LET t == FetchTry(r)
    IN  IF t.thrown THEN [st EXCEPT !.error = Some(ErrorMessage(t.err))]
        ELSE [st EXCEPT !.users = t.data, !.filteredUsers = t.data, !.loading = FALSE]

\* (mutation) the try block without setFilteredUsers(data)
FetchUsersSettled_NoFiltered(st, r) ==
    LET t == FetchTry(r)
        tried   == IF t.thrown THEN st ELSE [st EXCEPT !.users = t.data]
        caught  == IF t.thrown THEN [tried EXCEPT !.error = Some(ErrorMessage(t.err))]
                   ELSE tried
    IN  [caught EXCEPT !.loading = FALSE]

\* fetchUsers from the settlement of the await to its end: try, catch, finally
FetchUsersSettled(st, r) ==
    LET t == FetchTry(r)
        tried   == IF t.thrown THEN st
                   ELSE [st EXCEPT !.users = t.data, !.filteredUsers = t.data]
        caught  == IF t.thrown THEN [tried EXCEPT !.error = Some(ErrorMessage(t.err))]
                   ELSE tried
    IN  [caught EXCEPT !.loading = FALSE]

\* fetchUsers up to the await: setLoading(true); setError(null)
FetchUsersStarted(st) == [st EXCEPT !.loading = TRUE, !.error = Null]

\* (mutation) the term is not lower-cased before the comparison
MatchesSearch_TermCaseKept(user, term) ==
    \/ Includes(ToLowerCase(user.firstname), term)
    \/ Includes(ToLowerCase(user.lastname), term)
    \/ Includes(ToLowerCase(user.email), term)
    \/ Includes(ToLowerCase(user.username), term)

\* the predicate of users.filter in the filter effect
MatchesSearch(user, term) ==
    LET searchLower == ToLowerCase(term)
    IN  \/ Includes(ToLowerCase(user.firstname), searchLower)
        \/ Includes(ToLowerCase(user.lastname), searchLower)
        \/ Includes(ToLowerCase(user.email), searchLower)
        \/ Includes(ToLowerCase(user.username), searchLower)

\* (mutation) the filter effect without setCurrentPage(1)
FilterEffect_KeepsPage(st) ==
    IF Len(st.users) = 0 THEN st
    ELSE LET Test(user) == MatchesSearch(user, st.searchTerm)
         IN  [st EXCEPT !.filteredUsers = SelectSeq(st.users, Test)]

\* (mutation) the filter effect also drops the selected ids that are
\* filtered out of view
FilterEffect_PrunesSelection(st) ==
    IF Len(st.users) = 0 THEN st
    ELSE LET Test(user) == MatchesSearch(user, st.searchTerm)
             filtered == SelectSeq(st.users, Test)
             Visible(id) == \E k \in 1..Len(filtered) : filtered[k].id = id
         IN  [st EXCEPT !.filteredUsers = filtered, !.currentPage = 1,
                        !.selectedUsers = SelectSeq(st.selectedUsers, Visible)]

\* the body of the filter effect
FilterEffect(st) ==
    IF Len(st.users) = 0 THEN st
    ELSE LET Test(user) == MatchesSearch(user, st.searchTerm)
             filtered == SelectSeq(st.users, Test)
         IN  [st EXCEPT !.filteredUsers = filtered, !.currentPage = 1]

\* (mutation) the window taken with 1-based bounds
currentUsers_OneBased ==
    Slice(filteredUsers, currentPage * 5 - 5 + 1, currentPage * 5 + 1)

\* values derived in the render
indexOfLastUser == currentPage * usersPerPage
indexOfFirstUser == indexOfLastUser - usersPerPage
currentUsers == Slice(filteredUsers, indexOfFirstUser, indexOfLastUser)
totalPages == CeilDiv(Len(filteredUsers), usersPerPage)

\* which of the three returns of the render is taken
View ==
    IF loading THEN "loading"
    ELSE IF Truthy(error) THEN "error"
    ELSE "ready"

\* the table is on screen and React has no effect left to flush
Interactive == View = "ready" /\ effects = {}

-----------------------------------------------------------------------------
(* Selection handlers and page buttons *)

\* Array.prototype.includes on an array of ids
IncludesId(arr, x) == \E k \in 1..Len(arr) : arr[k] = x

\* [...new Set(arr)]: the first occurrence of each element, in order
RECURSIVE Dedupe(_)
Dedupe(arr) ==
    IF arr = <<>> THEN <<>>
    ELSE LET front == Dedupe(SubSeq(arr, 1, Len(arr) - 1))
             last  == arr[Len(arr)]
         IN  IF IncludesId(front, last) THEN front ELSE Append(front, last)

\* (mutation) map's second argument, the index, taken for the id
IdsOf_Index(us) == [k \in 1..Len(us) |-> k - 1]

\* currentUsers.map(user => user.id)
IdsOf(us) == [k \in 1..Len(us) |-> us[k].id]

\* (mutation) the id is appended without the includes test
handleSelectUser_AlwaysAppends(selected, userId) == Append(selected, userId)

\* handleSelectUser(userId): the new value of selectedUsers
handleSelectUser(selected, userId) ==
    IF IncludesId(selected, userId)
    THEN LET Keep(id) == id # userId IN SelectSeq(selected, Keep)
    ELSE Append(selected, userId)

\* (mutation) unchecking clears the whole selection
handleSelectAll_UncheckClearsAll(selected, page, checked) ==
    IF checked THEN Dedupe(selected \o IdsOf(page)) ELSE <<>>

\* (mutation) checking replaces the selection by the page's ids
handleSelectAll_CheckReplaces(selected, page, checked) ==
    IF checked THEN IdsOf(page)
    ELSE LET Keep(id) == ~IncludesId(IdsOf(page), id) IN SelectSeq(selected, Keep)

\* (mutation) checking appends the page's ids without the Set
handleSelectAll_NoSet(selected, page, checked) ==
    IF checked THEN selected \o IdsOf(page)
    ELSE LET Keep(id) == ~IncludesId(IdsOf(page), id) IN SelectSeq(selected, Keep)

\* handleSelectAll(e) with e.target.checked = checked, on the page `page`
handleSelectAll(selected, page, checked) ==
    IF checked
    THEN LET allCurrentIds == IdsOf(page)
         IN  Dedupe(selected \o allCurrentIds)
    ELSE LET currentIds == IdsOf(page)
             Keep(id) == ~IncludesId(currentIds, id)
         IN  SelectSeq(selected, Keep)

isAllSelected ==
    /\ Len(currentUsers) > 0
    /\ \A k \in 1..Len(currentUsers) : IncludesId(selectedUsers, currentUsers[k].id)

\* (mutation) Previous without Math.max
PreviousUpdater_Unclamped(prev) == prev - 1

\* the updater of the Previous button
PreviousUpdater(prev) == Max(prev - 1, 1)

\* (mutation) Next without Math.min
NextUpdater_Unclamped(prev, total) == prev + 1

\* (mutation) Next clamped one page past the last
NextUpdater_PastLast(prev, total) == Min(prev + 1, total + 1)

\* the updater of the Next button; total is the totalPages of the render
NextUpdater(prev, total) == Min(prev + 1, total)

\* (mutation) the fetch effect with [searchTerm] as its dependency array
EffectsOfCommit_FetchOnSearch(before, after) ==
    (IF after.searchTerm # before.searchTerm \/ after.users # before.users
     THEN {"filter"} ELSE {})
    \cup (IF after.searchTerm # before.searchTerm THEN {"fetch"} ELSE {})

\* The passive effects a commit schedules after the mount: the fetch effect
\* has the dependency array [] and is never run again; the filter effect has
\* [searchTerm, users] and is run when one of the two changed.
EffectsOfCommit(before, after) ==
    IF after.searchTerm # before.searchTerm \/ after.users # before.users
    THEN {"filter"} ELSE {}

-----------------------------------------------------------------------------
(* Actions *)

Init ==
    /\ users = InitialState.users
    /\ filteredUsers = InitialState.filteredUsers
    /\ selectedUsers = InitialState.selectedUsers
    /\ searchTerm = InitialState.searchTerm
    /\ currentPage = InitialState.currentPage
    /\ loading = InitialState.loading
    /\ error = InitialState.error
    /\ inFlight = FALSE
    /\ requests = 0
    /\ effects = {"fetch", "filter"}
    /\ selectionEvents = 0

\* The mount effect of lines 77-112: fetchUsers() runs up to its await and
\* the request is issued.
MountFetchEffect ==
    /\ "fetch" \in effects
    /\ Commit(FetchUsersStarted(State))
    /\ inFlight' = TRUE
    /\ requests' = requests + 1
    /\ effects' = effects \ {"fetch"}
    /\ UNCHANGED selectionEvents

\* The effect of lines 115-129, run after a commit that changed searchTerm or
\* users (and once on mount, after the fetch effect, in declaration order).
RunFilterEffect ==
    /\ "filter" \in effects
    /\ "fetch" \notin effects
    /\ Commit(FilterEffect(State))
    /\ effects' = effects \ {"filter"}
    /\ UNCHANGED <<inFlight, requests, selectionEvents>>

\* The awaited fetch settles and fetchUsers runs to its end; the commit
\* schedules the filter effect when setUsers stored a new array.
FetchSettle(r) ==
    /\ inFlight
    /\ effects = {}
    /\ Commit(FetchUsersSettled(State, r))
    /\ inFlight' = FALSE
    /\ effects' = EffectsOfCommit(State, FetchUsersSettled(State, r))
    /\ UNCHANGED <<requests, selectionEvents>>

\* onChange of the search input (line 204): the input's value became t
SearchChange(t) ==
    /\ Interactive
    /\ t # searchTerm
    /\ searchTerm' = t
    /\ effects' = EffectsOfCommit(State, [State EXCEPT !.searchTerm = t])
    /\ UNCHANGED <<users, filteredUsers, selectedUsers, currentPage, loading, error,
                   inFlight, requests, selectionEvents>>

\* onClick of Previous (line 288).  The buttons are rendered when the
\* filtered list is not empty; where a button is disabled its updater leaves
\* the page as it is, so the click is modelled there as well.
PreviousClick ==
    /\ Interactive
    /\ Len(filteredUsers) > 0
    /\ currentPage' = PreviousUpdater(currentPage)
    /\ UNCHANGED <<users, filteredUsers, selectedUsers, searchTerm, loading, error,
                   inFlight, requests, effects, selectionEvents>>

\* onClick of Next (line 298)
NextClick ==
    /\ Interactive
    /\ Len(filteredUsers) > 0
    /\ currentPage' = NextUpdater(currentPage, totalPages)
    /\ UNCHANGED <<users, filteredUsers, selectedUsers, searchTerm, loading, error,
                   inFlight, requests, effects, selectionEvents>>

\* onChange of the checkbox of a rendered row (line 246)
SelectUser(userId) ==
    /\ Interactive
    /\ selectionEvents < MaxSelectionEvents
    /\ IncludesId(IdsOf(currentUsers), userId)
    /\ selectedUsers' = handleSelectUser(selectedUsers, userId)
    /\ selectionEvents' = selectionEvents + 1
    /\ UNCHANGED <<users, filteredUsers, searchTerm, currentPage, loading, error,
                   inFlight, requests, effects>>

\* onChange of the header checkbox (line 218): a click flips the controlled
\* checkbox, so e.target.checked is the negation of the rendered isAllSelected
SelectAll ==
    /\ Interactive
    /\ selectionEvents < MaxSelectionEvents
    /\ selectedUsers' = handleSelectAll(selectedUsers, currentUsers, ~isAllSelected)
    /\ selectionEvents' = selectionEvents + 1
    /\ UNCHANGED <<users, filteredUsers, searchTerm, currentPage, loading, error,
                   inFlight, requests, effects>>

\* (mutation) Retry only clears the error instead of reloading the page
Retry_ClearsErrorOnly ==
    /\ View = "error"
    /\ effects = {}
    /\ error' = Null
    /\ UNCHANGED <<users, filteredUsers, selectedUsers, searchTerm, currentPage, loading,
                   inFlight, requests, effects, selectionEvents>>

\* (mutation) Retry calls fetchUsers again without reloading the page
Retry_RefetchInPlace ==
    /\ View = "error"
    /\ effects = {}
    /\ effects' = {"fetch"}
    /\ UNCHANGED <<users, filteredUsers, selectedUsers, searchTerm, currentPage, loading,
                   error, inFlight, requests, selectionEvents>>

\* onClick of Retry (line 183): window.location.reload() discards the page
\* and mounts the component anew
Retry ==
    /\ View = "error"
    /\ effects = {}
    /\ Commit(InitialState)
    /\ inFlight' = FALSE
    /\ requests' = 0
    /\ effects' = {"fetch", "filter"}
    /\ selectionEvents' = 0

\* the awaited fetch settles in one of the ways the endpoint can answer
AwaitSettles == inFlight /\ \E r \in Settlements : FetchSettle(r)

\* the user types into the search input
SearchInput == Interactive /\ \E t \in Terms : SearchChange(t)

\* the user clicks the checkbox of one of the rendered rows
RowCheckboxClick ==
    /\ Interactive
    /\ selectionEvents < MaxSelectionEvents
    /\ \E userId \in Range(IdsOf(currentUsers)) : SelectUser(userId)

Next ==
    \/ MountFetchEffect
    \/ RunFilterEffect
    \/ AwaitSettles
    \/ SearchInput
    \/ PreviousClick
    \/ NextClick
    \/ RowCheckboxClick
    \/ SelectAll
    \/ Retry

Spec == Init /\ [][Next]_vars

\* the steps that are not the user's: React runs a scheduled effect, or the
\* awaited network call settles
RuntimeStep == MountFetchEffect \/ RunFilterEffect \/ AwaitSettles

\* The scheduling the runtime guarantees: React runs the effects a commit
\* scheduled, and the awaited network call eventually resolves or rejects.
FairSpec == Spec /\ WF_vars(RuntimeStep)

-----------------------------------------------------------------------------
(* Properties *)

\* the ids of the base list
UserIds == {users[k].id : k \in 1..Len(users)}

\* the selection as a set of ids
SelectedSet(selected) == Range(selected)

\* C1: in every reachable state exactly one of the three presentations is
\* shown: the spinner exactly while the loading flag is up, the error screen
\* exactly when an error message is stored, the table exactly when a base
\* list is stored; never two of the three at once and never none.
C1_ExactlyOnePresentation ==
    /\ Cardinality({p \in {"loading", "error", "data"} :
                        \/ p = "loading" /\ loading
                        \/ p = "error" /\ error # Null
                        \/ p = "data" /\ Len(users) > 0}) = 1
    /\ View = "loading" <=> loading
    /\ View = "error" <=> error # Null
    /\ View = "ready" <=> Len(users) > 0

\* the error screen after a body that is no JSON
C1_Witness == View = "error" /\ error = Some(JsonParseMessage)

\* C2: the presentation only moves Loading -> Error or Loading -> Ready.
\* From Ready every step stays in Ready; from Error a step either stays in
\* Error or is the Retry that remounts the component into Loading.
C2_PresentationTransitions ==
    [][ /\ View = "ready" => View' = "ready"
        /\ View = "error" =>
              \/ View' = "error"
              \/ /\ View' = "loading"
                 /\ State' = InitialState
                 /\ effects' = {"fetch", "filter"} ]_vars

\* the table after a search, a page change and a selection
C2_Witness ==
    /\ Interactive
    /\ searchTerm # <<>>
    /\ currentPage = 2
    /\ selectedUsers # <<>>

\* C3: a 2xx response whose body is an empty array or JSON that is no array
\* ends in the error screen with the fixed data-format message, and the base
\* list and the filtered list stay empty.
C3_MalformedBodyIsError ==
    [][ \A r \in Settlements :
          ( /\ FetchSettle(r)
            /\ ~r.rejected
            /\ ResponseOk(r.status)
            /\ r.body.parses
            /\ (~r.body.isArray \/ r.body.items = <<>>) )
          => /\ View' = "error"
             /\ error' = Some(<<"Invalid data format received from API">>)
             /\ users' = <<>>
             /\ filteredUsers' = <<>> ]_vars

\* the error screen with the data-format message
C3_Witness ==
    /\ View = "error"
    /\ error = Some(<<"Invalid data format received from API">>)
    /\ users = <<>>

\* the three decimal digits of an HTTP status
StatusDigits(s) ==
    <<DigitChars[(s \div 100) + 1], DigitChars[((s \div 10) % 10) + 1],
      DigitChars[(s % 10) + 1]>>

\* C4: a non-2xx status s ends in the error screen with a message that
\* contains the digits of s; a network failure ends in the error screen with
\* the message of the rejection.
C4_FetchErrorMessage ==
    [][ \A r \in Settlements :
          FetchSettle(r) =>
            /\ (~r.rejected /\ ~(r.status \in 200..299)) =>
                  /\ View' = "error"
                  /\ Includes(error'[1], StatusDigits(r.status))
            /\ r.rejected =>
                  /\ View' = "error"
                  /\ error' = Some(r.message) ]_vars

\* the error screen after a status 500
C4_Witness ==
    /\ View = "error"
    /\ Includes(error[1], <<"5", "0", "0">>)

\* a and b are the same letter, case ignored
SameLetter(a, b) ==
    \/ a = b
    \/ \E k \in 1..Len(Lower) : {a, b} = {Lower[k], Upper[k]}

\* field contains term as a case-insensitive substring
ContainsIgnoringCase(field, term) ==
    \E off \in 0..(Len(field) - Len(term)) :
        \A k \in 1..Len(term) : SameLetter(field[off + k], term[k])

\* the positions of the base list whose record matches the term
MatchingPositions(term) ==
    {i \in 1..Len(users) :
        \/ ContainsIgnoringCase(users[i].firstname, term)
        \/ ContainsIgnoringCase(users[i].lastname, term)
        \/ ContainsIgnoringCase(users[i].email, term)
        \/ ContainsIgnoringCase(users[i].username, term)}

\* C5: in every settled Ready state the filtered list is the records of the
\* base list at the matching positions, in base-list order: its k-th record
\* is the base record at the k-th smallest matching position.  The empty
\* term matches every position.
C5_FilteredIsMatchingSubsequence ==
    Interactive =>
        LET pos == MatchingPositions(searchTerm)
        IN  /\ Len(filteredUsers) = Cardinality(pos)
            /\ \A i \in pos :
                  filteredUsers[Cardinality({j \in pos : j <= i})] = users[i]
            /\ (searchTerm = <<>> => filteredUsers = users)

\* a term in upper and lower case that keeps some records and drops others
C5_Witness ==
    /\ Interactive
    /\ searchTerm = <<"B", "b">>
    /\ Len(filteredUsers) > 0
    /\ Len(filteredUsers) < Len(users)

\* C6: a change of the search term in the table always schedules the filter
\* recomputation, and the recomputation leaves currentPage at 1, whatever
\* the page was and whatever the new term matches.
C6_SearchResetsPage ==
    [][ /\ (View = "ready" /\ searchTerm' # searchTerm) => "filter" \in effects'
        /\ ("filter" \in effects /\ "filter" \notin effects') => currentPage' = 1 ]_vars

\* the term changed while on page 3; the recomputation is about to run
C6_Witness ==
    /\ View = "ready"
    /\ "filter" \in effects
    /\ searchTerm # <<>>
    /\ currentPage = 3

\* C7 as stated: in every Ready state 1 <= currentPage <= totalPages, also
\* when the search term matches no record.
C7_PageWithinTotalPages ==
    View = "ready" => (1 <= currentPage /\ currentPage <= totalPages)

\* C7 amended: currentPage is within [1, totalPages] whenever the filtered
\* list is not empty; when it is empty, totalPages is 0 and currentPage is 1.
C7_PageWithinTotalPagesOrOne ==
    /\ totalPages = (Len(filteredUsers) + 4) \div 5
    /\ Len(filteredUsers) > 0 => (1 <= currentPage /\ currentPage <= totalPages)
    /\ Len(filteredUsers) = 0 => (totalPages = 0 /\ currentPage = 1)

\* the table when the term matches no record
C7_Witness ==
    /\ Interactive
    /\ searchTerm # <<>>
    /\ filteredUsers = <<>>
    /\ selectedUsers # <<>>

\* C8: Previous on page 1 and Next on the last page leave currentPage as it
\* is, elsewhere they change it by exactly -1 and +1, and currentPage is at
\* least 1 in every reachable state.
C8_PreviousNextClamped ==
    /\ [](currentPage \in Nat /\ currentPage >= 1)
    /\ [][ /\ PreviousClick =>
                currentPage' = IF currentPage = 1 THEN 1 ELSE currentPage - 1
           /\ NextClick =>
                currentPage' = IF currentPage = totalPages THEN totalPages
                               ELSE currentPage + 1 ]_vars

\* the last of three pages, reached by Next
C8_Witness ==
    /\ Interactive
    /\ totalPages = 3
    /\ currentPage = totalPages

\* C9: for currentPage within [1, totalPages] the page window is the records
\* of the filtered list at 0-based positions (currentPage-1)*5 up to but
\* excluding min(currentPage*5, filteredCount); it has at most 5 records and
\* on the last page exactly filteredCount - 5*(totalPages-1).
C9_PageWindow ==
    LET n     == Len(filteredUsers)
        pages == (n + 4) \div 5
        first == (currentPage - 1) * 5
        last  == IF currentPage * 5 <= n THEN currentPage * 5 ELSE n
    IN  (1 <= currentPage /\ currentPage <= pages) =>
            /\ Len(currentUsers) = last - first
            /\ \A k \in 1..(last - first) : currentUsers[k] = filteredUsers[first + k]
            /\ Len(currentUsers) <= 5
            /\ currentPage = pages => Len(currentUsers) = n - 5 * (pages - 1)

\* 12 records, page 3 of 3 shows 2
C9_Witness ==
    /\ Interactive
    /\ Len(filteredUsers) = 12
    /\ currentPage = 3
    /\ Len(currentUsers) = 2

\* C10: on every reachable selection and for every id of the base list, one
\* row toggle adds the id if it is absent and removes it if it is present,
\* leaving every other id as it is, and two toggles of the same id in
\* succession give back the same set of selected ids.
C10_ToggleIsInvolution ==
    \A id \in UserIds :
        LET S     == SelectedSet(selectedUsers)
            once  == handleSelectUser(selectedUsers, id)
            twice == handleSelectUser(once, id)
        IN  /\ SelectedSet(once) = IF id \in S THEN S \ {id} ELSE S \cup {id}
            /\ SelectedSet(twice) = S
            /\ Len(once) = Cardinality(SelectedSet(once))
            /\ Len(twice) = Cardinality(S)

\* a selection of two ids made by row toggles, where toggling the first id
\* twice gives back the same set in another order
C10_Witness ==
    /\ Interactive
    /\ Len(selectedUsers) = 2
    /\ handleSelectUser(handleSelectUser(selectedUsers, selectedUsers[1]), selectedUsers[1])
          # selectedUsers

\* the ids of the rows of the current page window
PageIds == {currentUsers[k].id : k \in 1..Len(currentUsers)}

\* the selection after the header checkbox was checked and then unchecked
\* on the current page
CheckedThenUnchecked ==
    handleSelectAll(handleSelectAll(selectedUsers, currentUsers, TRUE), currentUsers, FALSE)

\* C11 as stated: checking and then unchecking select-all on the same page
\* gives back the selection set as it was before, for every prior selection,
\* also one that already held some of the page's ids.
C11_CheckUncheckRestores ==
    Interactive => SelectedSet(CheckedThenUnchecked) = SelectedSet(selectedUsers)

\* C11 amended: checking and then unchecking select-all on the same page
\* gives the prior selection without the page's ids: every id that is not on
\* the page is as it was before, no id of the page is selected, and the
\* selection is given back (as the same array) exactly when it held none
\* of the page's ids.
C11_CheckUncheckRemovesPageIds ==
    Interactive =>
        LET S == SelectedSet(selectedUsers)
        IN  /\ SelectedSet(CheckedThenUnchecked) = S \ PageIds
            /\ (S \cap PageIds = {}) <=> (CheckedThenUnchecked = selectedUsers)

\* a selection holding an id of the current page and an id of another page
C11_Witness ==
    /\ Interactive
    /\ SelectedSet(selectedUsers) \cap PageIds # {}
    /\ SelectedSet(selectedUsers) \ PageIds # {}

\* C12: the header checkbox touches only the current page's ids.  Checked,
\* the handler gives the old selection united with the page's ids;
\* unchecked, the old selection minus the page's ids; either way an id that
\* is not on the page is selected after exactly if it was before.  Every
\* step of the header checkbox changes the selection in that way.
C12_SelectAllTouchesOnlyPage ==
    /\ [](Interactive =>
            LET S == SelectedSet(selectedUsers)
                checked == SelectedSet(handleSelectAll(selectedUsers, currentUsers, TRUE))
                unchecked == SelectedSet(handleSelectAll(selectedUsers, currentUsers, FALSE))
            IN  /\ checked = S \cup PageIds
                /\ unchecked = S \ PageIds
                /\ \A id \in (UserIds \cup S) \ PageIds :
                      /\ id \in checked <=> id \in S
                      /\ id \in unchecked <=> id \in S)
    /\ [][SelectAll =>
            LET S == SelectedSet(selectedUsers)
            IN  SelectedSet(selectedUsers') =
                    IF isAllSelected THEN S \ PageIds ELSE S \cup PageIds]_vars

\* the whole page is selected next to an id of another page
C12_Witness ==
    /\ Interactive
    /\ isAllSelected
    /\ SelectedSet(selectedUsers) \ PageIds # {}

\* C13: each id occurs at most once in selectedUsers in every reachable
\* state, so the displayed count selectedUsers.length is the number of
\* distinct selected ids.
C13_NoDuplicateSelection ==
    /\ Len(selectedUsers) = Cardinality(SelectedSet(selectedUsers))
    /\ \A i, j \in 1..Len(selectedUsers) : selectedUsers[i] = selectedUsers[j] => i = j

\* a row that is not the first of its page was toggled on, then select-all
\* was checked on that page
C13_Witness ==
    /\ Interactive
    /\ selectionEvents = 2
    /\ isAllSelected
    /\ Len(selectedUsers) = usersPerPage
    /\ selectedUsers[1] # currentUsers[1].id

\* C14: a step in the table that changes the search term, the filtered list
\* or the page leaves selectedUsers as it is.
C14_SelectionIndependent ==
    [][ ( /\ View = "ready"
          /\ \/ searchTerm' # searchTerm
             \/ filteredUsers' # filteredUsers
             \/ currentPage' # currentPage )
        => selectedUsers' = selectedUsers ]_vars

\* an id stays selected while the term filters its record out of view
C14_Witness ==
    /\ Interactive
    /\ searchTerm # <<>>
    /\ \E id \in SelectedSet(selectedUsers) :
          \A k \in 1..Len(filteredUsers) : filteredUsers[k].id # id

\* C15: the selected ids are ids of the base list in every reachable state,
\* and the selection is empty while the spinner or the error screen is shown.
C15_SelectionWithinBaseIds ==
    /\ SelectedSet(selectedUsers) \subseteq UserIds
    /\ View # "ready" => selectedUsers = <<>>

\* a whole page of ids selected
C15_Witness ==
    /\ Interactive
    /\ Len(selectedUsers) >= usersPerPage
    /\ SelectedSet(selectedUsers) = PageIds

\* C16: there is no automatic retry.  While the error screen is shown the
\* one request of the mount has been made and none is in flight or
\* scheduled; a request is only ever made by the mount effect; the only step
\* out of the error screen is the reload, which gives the state of a fresh
\* mount (Loading, error cleared, empty lists, empty term, empty selection,
\* page 1) with the mount effects scheduled; and the mount effect then makes
\* the request again.
C16_RetryIsRemount ==
    /\ [](View = "error" => (~inFlight /\ effects = {} /\ requests = 1))
    /\ [][ /\ requests' > requests =>
                ("fetch" \in effects /\ "fetch" \notin effects' /\ requests' = requests + 1)
           /\ "fetch" \in effects' => (requests' = 0 /\ State' = InitialState)
           /\ ("fetch" \in effects /\ "fetch" \notin effects') =>
                (inFlight' /\ requests' = 1 /\ View' = "loading" /\ error' = Null)
           /\ View = "error" =>
                /\ State' = InitialState
                /\ View' = "loading"
                /\ effects' = {"fetch", "filter"}
                /\ ~inFlight'
                /\ requests' = 0
                /\ selectionEvents' = 0 ]_vars

\* the error screen after a status 404, the one request made and settled
C16_Witness ==
    /\ View = "error"
    /\ Includes(error[1], <<"4", "0", "4">>)
    /\ requests = 1
    /\ ~inFlight

\* C17: in every committed render of the table the filtered list is the
\* filter of the base list by the search term of that render, and a render
\* whose recomputation is still to run does not hold a page other than 1.
C17_NoIntermediateRender ==
    View = "ready" =>
        LET pos == MatchingPositions(searchTerm)
        IN  /\ Len(filteredUsers) = Cardinality(pos)
            /\ \A k \in 1..Len(filteredUsers) : \E i \in pos : filteredUsers[k] = users[i]
            /\ "filter" \in effects => currentPage = 1

\* C18: a settlement with a 2xx status and a non-empty array commits the
\* table with the base list equal to the response in response order, the
\* filtered list equal to the base list, no error, loading ended, the empty
\* term, the empty selection and page 1; and the base list is non-empty in
\* every state that shows the table.
C18_SuccessEntersReady ==
    /\ [](View = "ready" => Len(users) > 0)
    /\ [][ \A r \in Settlements :
             ( /\ FetchSettle(r)
               /\ ~r.rejected
               /\ r.status \in 200..299
               /\ r.body.parses
               /\ r.body.isArray
               /\ Len(r.body.items) > 0 )
             => /\ View' = "ready"
                /\ users' = r.body.items
                /\ filteredUsers' = r.body.items
                /\ error' = Null
                /\ ~loading'
                /\ searchTerm' = <<>>
                /\ selectedUsers' = <<>>
                /\ currentPage' = 1 ]_vars

\* the commit of a response of 12 records, before the filter effect has run
C18_Witness ==
    /\ View = "ready"
    /\ "filter" \in effects
    /\ searchTerm = <<>>
    /\ Len(users) = 12
    /\ filteredUsers = users

\* C19: with the mount effects run and the network call settling, loading
\* always ends; at most one request is made per mount, and a request is in
\* flight only as that one.
C19_LoadingEnds ==
    /\ loading ~> ~loading
    /\ [](requests \in {0, 1})
    /\ [](inFlight => requests = 1)

\* the table, reached from Loading by the one request
C19_Witness ==
    /\ View = "ready"
    /\ effects = {}
    /\ requests = 1
    /\ ~inFlight

\* C20: in every state that shows the table the page window is empty exactly
\* when the filtered list is empty, and in the settled ones the filtered
\* list is empty exactly when no record matches the search term.
C20_EmptyWindowIffNoMatch ==
    /\ View = "ready" => (currentUsers = <<>> <=> filteredUsers = <<>>)
    /\ Interactive => (currentUsers = <<>> <=> MatchingPositions(searchTerm) = {})

\* the empty-state of the table: a term that no record matches
C20_Witness ==
    /\ Interactive
    /\ users # <<>>
    /\ currentUsers = <<>>
    /\ MatchingPositions(searchTerm) = {}

=============================================================================
